---- MODULE Spec2Model ----
(***************************************************************************)
(* backup-suite: the service object and its full_backup run.               *)
(*                                                                         *)
(* ServiceInit is BackupService.__init__ building its ConnInfo             *)
(* (src/conn_info.py).  ComputeLocal, DeleteLocalRoot and                  *)
(* CreateDirectoryTree are the layout steps of full_backup                 *)
(* (src/backup_service.py).  The download engine is                        *)
(* BackupService.download_resources and check_futures driving the tasks    *)
(* WebDavService.download_resource / send_request (src/webdav_service.py)  *)
(* on a ThreadPoolExecutor: the coordinating thread (LoopIter, Collect)    *)
(* and the pool's worker threads (StartFetch, EndFetch).                   *)
(*                                                                         *)
(* The root URL, the listing get_resources returned, the transport's       *)
(* behaviour for every resource, the content of the local root before the  *)
(* run, the path flavour of the platform, the service class's MAX_TRIES    *)
(* and do_async are inputs drawn by the initial predicates.                *)
(***************************************************************************)
EXTENDS Integers, Sequences, FiniteSets, TLC

\* ------------------------------------------------------------------ bounds

\* longest listing handed to download_resources
MaxListLen == 2

\* largest integer MAX_TRIES a service class is given besides WebDavService's,
\* and longest run of 503 answers a transport script gives before a 200
MaxCeiling == 2

\* ------------------------------------------------------- program constants

\* BackupService.MAX_TRIES = None: no ceiling
NoCeiling == -1

\* WebDavService.MAX_TRIES
WebDavMaxTries == 5

\* the counters try_num, attempts and gets stop counting one past the largest
\* ceiling (reached only when MAX_TRIES is None, where try_num is compared with
\* nothing, or when a listing names a resource more than once)
CounterCap == WebDavMaxTries + 1

\* max_workers = 20 if self.do_async else 1
AsyncWorkers == 20
SyncWorkers == 1

\* BackupService.RETRY_CODES
RETRY_CODES == {429, 502, 503, 504}

\* the characters removed by _compute_local_res_paths
INVALID_WIN_CHARS == {"<", ">", ":", "\"", "/", "|", "?", "*"}

\* the methods class ConnInfo defines
ConnInfoMethods == {"resource_path_to_url", "full_path_to_url", "has_double_slash"}

\* the ConnInfo method download_resource calls to build the resource URL
UrlBuilderCalled == "remote_res_path_to_url"

\* os.sep of the two path flavours of pathlib (PurePosixPath, PureWindowsPath)
PosixSep == "/"
NtSep == "\\"

\* ------------------------------------------------------------------ inputs

\* A PurePath is the sequence of its parts; a part is the sequence of its
\* characters.  The remote resources of the download engine's runs:
\* a and b: (single part each)
RemotePaths == { << <<"a">> >>, << <<"b", ":">> >> }

SeqsUpTo(S, n) == UNION { [1..k -> S] : k \in 0..n }

\* longest part, most parts, of the paths the path functions are applied to
MaxSegLen == 2
MaxSegs == 2

\* longest path component of a root URL
MaxUrlLen == 6

\* the parts of the remote paths: names of a and : up to MaxSegLen characters,
\* the name :. (a dot is left of it) and the part ..
PathParts ==
    (UNION { [1..k -> {"a", ":"}] : k \in 1..MaxSegLen })
    \cup { <<":", ".">>, <<".", ".">> }

\* relative remote paths of 1..MaxSegs parts
PathInputs == UNION { [1..k -> PathParts] : k \in 1..MaxSegs }

\* the path component of a root URL, as urlparse returns it
UrlPaths == UNION { [1..k -> {"/", "a"}] : k \in 0..MaxUrlLen }

\* file names of the end-to-end listing a/b.txt, a/c:d.txt, e.txt, and a/cd.txt
Name_a == <<"a">>
Name_b_txt == <<"b", ".", "t", "x", "t">>
Name_cd_txt == <<"c", "d", ".", "t", "x", "t">>
Name_c_d_txt == <<"c", ":", "d", ".", "t", "x", "t">>
Name_e_txt == <<"e", ".", "t", "x", "t">>

EndToEndListing == << <<Name_a, Name_b_txt>>, <<Name_a, Name_c_d_txt>>, <<Name_e_txt>> >>

\* the remote resources of full_backup's runs
BackupPaths == { <<Name_a, Name_b_txt>>, <<Name_a, Name_c_d_txt>>,
                 <<Name_a, Name_cd_txt>>, <<Name_e_txt>> }

BackupListings == SeqsUpTo(BackupPaths, MaxListLen) \cup {EndToEndListing}

Range(s) == { s[i] : i \in 1..Len(s) }

\* what session.request does for one request: it raises Timeout, raises another
\* RequestException (connection reset, DNS failure, TLS failure), or returns a
\* response with a status code
Response(s) == [kind |-> "response", status |-> s]
TimeoutError == [kind |-> "Timeout", status |-> 0]
ConnectionError == [kind |-> "ConnectionError", status |-> 0]

\* a transport script answers its first `pre' requests with the retryable status
\* `code' and every later request with `fin'
Script(k, c, t) == [pre |-> k, code |-> c, fin |-> t]

FinalResults == { Response(s) : s \in {200, 206, 404} } \cup {TimeoutError, ConnectionError}

Scripts ==
    { Script(0, 503, t) : t \in FinalResults }
    \cup { Script(k, 503, Response(200)) : k \in 1..MaxCeiling }
    \cup { Script(1, c, Response(200)) : c \in RETRY_CODES }

Answer(script, n) == IF n <= script.pre THEN Response(script.code) ELSE script.fin

MaxTriesValues == {NoCeiling, WebDavMaxTries} \cup (1..MaxCeiling)

\* ------------------------------------------------------------------- state

VARIABLES
    os_name,                 \* os.name: "posix" or "nt", the flavour of PurePath
    url_path,                \* urlparse(root_url).path
    conn_info,               \* self.conn_info: how ConnInfo(root_url) ended, its root_path
    conn_methods,            \* attribute names self.conn_info answers to
    MAX_TRIES,               \* the service class's MAX_TRIES
    do_async,                \* self.do_async
    remote_resources,        \* the list get_resources returned, argument of download_resources
    transport,               \* remote path -> transport script
    remote_res_to_local_res, \* BackupService.remote_res_to_local_res
    pc,                      \* coordinating thread: "new", "list", "compute", "delete",
                             \* "mkdir", "loop", "check", "done", "raised", "aborted"
    try_num,
    try_resources,
    failed_resources,        \* download_resources' failed_resources
    retry_resources,         \* check_futures' retry_resources
    new_failed_resources,    \* check_futures' failed_resources
    tasks,                   \* work items of the executor, in submission order
    shut_down,               \* executor.shutdown was called
    attempts,                \* remote path -> number of download_resource calls started
    gets,                    \* remote path -> number of GET requests sent
    written,                 \* {<<remote path, wave>>}: calls that opened the local file
    files,                   \* local path (joined to local_root_path) -> remote path
                             \* whose body the file holds, or <<>>: no such file
    prior,                   \* what was under the local root before the run
    dirs,                    \* directories that exist, as paths joined to local_root_path
    mkdirs,                  \* the mkdir calls of _create_directory_tree, in order
    res_state,               \* remote path -> class of its last collected outcome
    listing_answer,          \* what session.request does for the PROPFIND request
    content,                 \* response.content of the PROPFIND response
    propfinds,               \* number of PROPFIND requests sent in this run
    listed,                  \* how get_resources ended: the exception that left
                             \* it, or NoException
    url,                     \* what resource_path_to_url returned last
    run,                     \* number of the full_backup run in this process
    services,                \* len(self.services) of the BackupSuite
    handlers,                \* the handlers of the logger 'suite'
    thread_to_jobname,       \* modified_logging.thread_to_jobname
    call                     \* the BackupSuite.backup call of the job thread: its
                             \* number, thread_id, jobname and position

\* the listing request of get_resources, the URL built last, the run number
discovery == << listing_answer, content, propfinds, listed, url, run >>

\* the BackupSuite, its logger and the thread to job mapping
suite == << services, handlers, thread_to_jobname, call >>

\* the state outside download_resources
outer == << os_name, url_path, conn_info, dirs, mkdirs, discovery, suite >>

vars == << os_name, url_path, conn_info, conn_methods, MAX_TRIES, do_async,
           remote_resources, transport, remote_res_to_local_res, pc, try_num,
           try_resources, failed_resources, retry_resources, new_failed_resources,
           tasks, shut_down, attempts, gets, written, files, prior, dirs, mkdirs,
           res_state, listing_answer, content, propfinds, listed, url, run,
           services, handlers, thread_to_jobname, call >>

config == << conn_methods, MAX_TRIES, do_async, remote_resources, transport,
             remote_res_to_local_res, prior >>

\* ------------------------------------------------------------ pure helpers

\* Sanitize that removes only the first invalid character it meets
RECURSIVE SanitizeFirstOnly(_)
SanitizeFirstOnly(s) ==
    IF s = <<>> THEN <<>>
    ELSE IF Head(s) \in INVALID_WIN_CHARS THEN Tail(s)
    ELSE <<Head(s)>> \o SanitizeFirstOnly(Tail(s))

\* Sanitize that keeps the colon
RECURSIVE SanitizeKeepsColon(_)
SanitizeKeepsColon(s) ==
    IF s = <<>> THEN <<>>
    ELSE IF Head(s) \in INVALID_WIN_CHARS \ {":"} THEN SanitizeKeepsColon(Tail(s))
    ELSE <<Head(s)>> \o SanitizeKeepsColon(Tail(s))

\* re.sub(INVALID_WIN_CHARS, '', str(remote_res_path))
RECURSIVE Sanitize(_)
Sanitize(s) ==
    IF s = <<>> THEN <<>>
    ELSE IF Head(s) \in INVALID_WIN_CHARS THEN Sanitize(Tail(s))
    ELSE <<Head(s)>> \o Sanitize(Tail(s))

\* os.sep
Sep == IF os_name = "nt" THEN NtSep ELSE PosixSep

\* the characters PurePath splits a string at: os.sep and os.altsep
Separators == IF os_name = "nt" THEN {NtSep, PosixSep} ELSE {PosixSep}

\* a PurePath with a root: its first part is the root
IsRooted(path) == path # <<>> /\ path[1] = <<Sep>>

RECURSIVE Join(_, _)
Join(parts, sep) ==
    IF parts = <<>> THEN <<>>
    ELSE IF Len(parts) = 1 THEN parts[1]
    ELSE parts[1] \o <<sep>> \o Join(Tail(parts), sep)

\* str(path)
Str(path) ==
    IF path = <<>> THEN <<".">>
    ELSE IF IsRooted(path) THEN <<Sep>> \o Join(Tail(path), Sep)
    ELSE Join(path, Sep)

\* the pieces of a string between separators, empty pieces included
RECURSIVE Pieces(_, _)
Pieces(s, seps) ==
    IF s = <<>> THEN << <<>> >>
    ELSE LET rest == Pieces(Tail(s), seps)
         IN  IF Head(s) \in seps THEN << <<>> >> \o rest
             ELSE << <<Head(s)>> \o rest[1] >> \o Tail(rest)

IsPart(piece) == piece # <<>> /\ piece # <<".">>

\* PurePath(s): separators collapse, "." pieces are dropped, a leading
\* separator is the root
PurePathOf(s) ==
    LET parts == SelectSeq(Pieces(s, Separators), IsPart)
    IN  IF s # <<>> /\ s[1] \in Separators THEN << <<Sep>> >> \o parts ELSE parts

\* PurePath(re.sub(INVALID_WIN_CHARS, '', str(path))): clean_path, and the same
\* expression in _compute_local_res_paths
clean_path(path) == PurePathOf(Sanitize(Str(path)))

\* _compute_local_res_paths: one dict entry per listed remote path, the entries
\* the class-level dict already has are kept
ComputeLocalResPaths(listing, old) ==
    [ p \in (DOMAIN old) \cup Range(listing) |->
        IF p \in Range(listing) THEN clean_path(p) ELSE old[p] ]

\* the dict before the first run of the process
EmptyDict == [ p \in {} |-> <<>> ]

\* path.parent
Parent(path) ==
    IF path = <<>> \/ (IsRooted(path) /\ Len(path) = 1) THEN path
    ELSE SubSeq(path, 1, Len(path) - 1)

\* a directory and the chain of its ancestors: up to the local root, or up to
\* its own root when the path has one (local_root_path / rooted path is the
\* rooted path)
WithAncestors(dir) ==
    { SubSeq(dir, 1, k) : k \in (IF IsRooted(dir) THEN 1 ELSE 0)..Len(dir) }

\* _create_directory_tree that stops after the first resource
MkdirCallsFirstOnly(listing, map, created) ==
    IF listing = <<>> THEN <<>> ELSE <<Parent(map[Head(listing)])>>

\* _create_directory_tree without the created_paths test
RECURSIVE MkdirCallsUnchecked(_, _, _)
MkdirCallsUnchecked(listing, map, created) ==
    IF listing = <<>> THEN <<>>
    ELSE <<Parent(map[Head(listing)])>>
         \o MkdirCallsUnchecked(Tail(listing), map, created)

\* _create_directory_tree: the directories it calls mkdir for, in order
RECURSIVE MkdirCalls(_, _, _)
MkdirCalls(listing, map, created) ==
    IF listing = <<>> THEN <<>>
    ELSE LET local_dir_path == Parent(map[Head(listing)])
         IN  IF local_dir_path \notin created
             THEN <<local_dir_path>>
                  \o MkdirCalls(Tail(listing), map, created \cup {local_dir_path})
             ELSE MkdirCalls(Tail(listing), map, created)

\* mkdir(parents=True, exist_ok=True) for every call: the directories existing after
DirsAfter(existing, calls) ==
    existing \cup UNION { WithAncestors(calls[i]) : i \in 1..Len(calls) }

\* a file and a directory left under the local root by something earlier
StaleFile == << <<"o", "l", "d">>, <<"f">> >>
StaleDir == << <<"o", "l", "d">> >>
StaleBody == << <<"s", "t", "a", "l", "e">> >>

\* the local file names a run can touch
FileNames(listing) == { clean_path(p) : p \in Range(listing) } \cup {StaleFile}

Inc(n) == IF n < CounterCap THEN n + 1 ELSE n

NoException == [exc |-> "none", status |-> 0]

Raise(e, s) == [exc |-> e, status |-> s]

\* send_request that takes every 2xx status for a success
send_request_any_2xx(method, t) ==
    IF t.kind = "Timeout" THEN Raise("Timeout", 0)
    ELSE IF t.kind = "ConnectionError" THEN Raise("RequestException", 0)
    ELSE IF t.status = 503 THEN Raise("HTTPError", 503)
    ELSE IF t.status < 200 \/ t.status >= 300 THEN Raise("HTTPError", t.status)
    ELSE NoException

\* WebDavService.send_request: the exception it raises, or NoException
send_request(method, t) ==
    IF t.kind = "Timeout" THEN Raise("Timeout", 0)
    ELSE IF t.kind = "ConnectionError" THEN Raise("RequestException", 0)
    ELSE IF t.status = 503 THEN Raise("HTTPError", 503)
    ELSE IF method = "PROPFIND"
         THEN (IF t.status # 207 THEN Raise("HTTPError", t.status) ELSE NoException)
         ELSE (IF t.status # 200 THEN Raise("HTTPError", t.status) ELSE NoException)

\* download_resource that opens the local file before it sends the request
download_resource_opens_first(methods, t, openable) ==
    IF UrlBuilderCalled \notin methods
    THEN [result |-> Raise("AttributeError", 0), sent |-> FALSE, wrote |-> FALSE]
    ELSE IF ~openable
         THEN [result |-> Raise("OSError", 0), sent |-> FALSE, wrote |-> FALSE]
         ELSE [result |-> send_request("GET", t), sent |-> TRUE, wrote |-> TRUE]

\* WebDavService.download_resource for a transport that answers t:
\* the exception the call ends with, whether the GET was sent, whether the
\* local file was opened and written; open() raises an OSError when the
\* file's directory is missing or the name is a directory
download_resource(methods, t, openable) ==
    IF UrlBuilderCalled \notin methods
    THEN [result |-> Raise("AttributeError", 0), sent |-> FALSE, wrote |-> FALSE]
    ELSE LET r == send_request("GET", t)
         IN  IF r.exc = "none" /\ ~openable
             THEN [result |-> Raise("OSError", 0), sent |-> TRUE, wrote |-> FALSE]
             ELSE [result |-> r, sent |-> TRUE, wrote |-> (r.exc = "none")]

\* open(local_full_path, 'wb') can create or truncate the file
CanOpen(local) == Parent(local) \in dirs /\ local \notin dirs

\* Classify with 429 missing from the retry codes
ClassifyWithout429(result) ==
    IF result.exc = "none" THEN "SUCCEEDED"
    ELSE IF result.exc = "HTTPError"
         THEN (IF result.status \in RETRY_CODES \ {429} THEN "RETRYABLE_FAILURE"
               ELSE "PERMANENT_FAILURE")
    ELSE IF result.exc = "Timeout" THEN "RETRYABLE_FAILURE"
    ELSE IF result.exc = "RequestException" THEN "PERMANENT_FAILURE"
    ELSE "RAISED"

\* check_futures' decision for one completed future
Classify(result) ==
    IF result.exc = "none" THEN "SUCCEEDED"
    ELSE IF result.exc = "HTTPError"
         THEN (IF result.status \in RETRY_CODES THEN "RETRYABLE_FAILURE"
               ELSE "PERMANENT_FAILURE")
    ELSE IF result.exc = "Timeout" THEN "RETRYABLE_FAILURE"
    ELSE IF result.exc = "RequestException" THEN "PERMANENT_FAILURE"
    ELSE "RAISED"

\* max_workers that ignores do_async
max_workers_always_async == AsyncWorkers

max_workers == IF do_async THEN AsyncWorkers ELSE SyncWorkers

Running == { i \in 1..Len(tasks) : tasks[i].state = "running" }

Queued == { i \in 1..Len(tasks) : tasks[i].state = "queued" }

\* the futures of future_to_resource: the work items submitted in this wave
Mapped == { i \in 1..Len(tasks) : tasks[i].mapped }

Unfinished(t) == t.state # "done"

Unmap(t) == [t EXCEPT !.mapped = FALSE]

IsRunning(t) == t.state = "running"

\* future_to_resource.clear(): the work items left are no longer in the dict
UnmapAll(s) == [ i \in 1..Len(s) |-> Unmap(s[i]) ]

NewTask(res, wave) ==
    [res |-> res, wave |-> wave, state |-> "queued", mapped |-> TRUE,
     collected |-> FALSE, answer |-> TimeoutError, result |-> NoException,
     sent |-> FALSE]

\* ---- the listing: get_resources and parse_resource_list

\* path.as_posix() of a path without a drive
as_posix(path) ==
    IF path = <<>> THEN <<".">>
    ELSE IF IsRooted(path) THEN <<"/">> \o Join(Tail(path), "/")
    ELSE Join(path, "/")

\* the text of the first href element of a response element: a URL with or
\* without scheme and netloc, its path percent-encoded; or no href element
NoHref == [present |-> FALSE, netloc |-> FALSE, path |-> <<>>]

Href(netloc, path) == [present |-> TRUE, netloc |-> netloc, path |-> path]

\* a response element of a multi-status document: its href and whether it has
\* a collection element
Item(href, collection) == [href |-> href, collection |-> collection]

\* response.content: bytes etree.fromstring rejects (XMLSyntaxError), or a
\* document with its response elements in order
Unparsable == [well_formed |-> FALSE, responses |-> <<>>]

MultiStatus(items) == [well_formed |-> TRUE, responses |-> items]

\* urlparse(text).path
urlparse_path(href) == href.path

\* unquote: a percent escape becomes the character it encodes
unquote(string) ==
    [ i \in 1..Len(string) |-> IF string[i] = "%3A" THEN ":" ELSE string[i] ]

\* a listing document a server under root_path sends for the files of a listing
DocumentOf(root_path, listing) ==
    MultiStatus([ i \in 1..Len(listing) |->
        Item(Href(FALSE, <<"/">> \o as_posix(root_path \o listing[i])), FALSE) ])

\* what parse_resource_list and get_resources end with
Returned(resources) == [exc |-> NoException, resources |-> resources]

Raised(e) == [exc |-> e, resources |-> <<>>]

\* path.relative_to(prefix) does not raise
IsRelativeTo(path, prefix) ==
    Len(prefix) <= Len(path) /\ SubSeq(path, 1, Len(prefix)) = prefix

\* the loop of parse_resource_list that stores collections too
RECURSIVE ParseResponsesKeepsDirs(_, _)
ParseResponsesKeepsDirs(responses, root_prefix) ==
    IF responses = <<>> THEN Returned(<<>>)
    ELSE LET response_elem == Head(responses)
         IN  IF ~response_elem.href.present
             THEN Raised(Raise("AttributeError", 0))
             ELSE LET resource_path_str == unquote(urlparse_path(response_elem.href))
                      path == PurePathOf(resource_path_str)
                      resource_path == IF IsRooted(path) THEN Tail(path) ELSE path
                  IN  IF ~IsRelativeTo(resource_path, root_prefix)
                      THEN Raised(Raise("ValueError", 0))
                      ELSE LET rest == ParseResponsesKeepsDirs(Tail(responses), root_prefix)
                           IN  IF rest.exc # NoException THEN rest
                               ELSE Returned(
                                      <<SubSeq(resource_path, Len(root_prefix) + 1,
                                               Len(resource_path))>>
                                      \o rest.resources)

\* parse_resource_list, lines 132-151: the loop over the response elements
RECURSIVE ParseResponses(_, _)
ParseResponses(responses, root_prefix) ==
    IF responses = <<>> THEN Returned(<<>>)
    ELSE LET response_elem == Head(responses)
         IN  IF response_elem.collection
             THEN ParseResponses(Tail(responses), root_prefix)
             ELSE IF ~response_elem.href.present
             THEN Raised(Raise("AttributeError", 0))
             ELSE LET resource_path_str == unquote(urlparse_path(response_elem.href))
                      path == PurePathOf(resource_path_str)
                      resource_path == IF IsRooted(path) THEN Tail(path) ELSE path
                  IN  IF ~IsRelativeTo(resource_path, root_prefix)
                      THEN Raised(Raise("ValueError", 0))
                      ELSE LET rest == ParseResponses(Tail(responses), root_prefix)
                           IN  IF rest.exc # NoException THEN rest
                               ELSE Returned(
                                      <<SubSeq(resource_path, Len(root_prefix) + 1,
                                               Len(resource_path))>>
                                      \o rest.resources)

\* parse_resource_list without the handler for XMLSyntaxError
parse_resource_list_unhandled(document, root_prefix) ==
    IF IsRooted(root_prefix) THEN Raised(Raise("AssertionError", 0))
    ELSE IF ~document.well_formed THEN Raised(Raise("XMLSyntaxError", 0))
    ELSE ParseResponses(document.responses, root_prefix)

\* WebDavService.parse_resource_list
parse_resource_list(document, root_prefix) ==
    IF IsRooted(root_prefix) THEN Raised(Raise("AssertionError", 0))
    ELSE IF ~document.well_formed THEN Returned(<<>>)
    ELSE ParseResponses(document.responses, root_prefix)

\* get_resources that takes a failed request for an empty listing
get_resources_absorbs_failure(answer, document, root_path) ==
    LET r == send_request("PROPFIND", answer)
    IN  IF r # NoException THEN Returned(<<>>)
        ELSE parse_resource_list(document, root_path)

\* WebDavService.get_resources: one PROPFIND request, then the parse
get_resources(answer, document, root_path) ==
    LET r == send_request("PROPFIND", answer)
    IN  IF r # NoException THEN Raised(r)
        ELSE parse_resource_list(document, root_path)

\* scheme and netloc of the root URL (urlparse(root_url).scheme, hostname:port)
Scheme == <<"h", "t", "t", "p">>
Netloc == <<"h", "o", "s", "t">>

\* the 6-tuple handed to urlunparse, as the URL it makes: with a netloc the
\* path is given a leading "/" unless it has one; params, query and fragment
\* are the empty string
urlunparse(scheme, netloc, path) ==
    [scheme |-> scheme, netloc |-> netloc,
     path |-> IF netloc # <<>> /\ path # <<>> /\ path[1] # "/" THEN <<"/">> \o path
              ELSE path,
     query |-> <<>>, fragment |-> <<>>]

\* the letters of the names the model uses: a part that begins with one of
\* them and a colon is read by PureWindowsPath as a drive
DriveLetters == {"a", "b", "c", "d", "e"}

HasDrive(part) ==
    os_name = "nt" /\ Len(part) >= 2 /\ part[1] \in DriveLetters /\ part[2] = ":"

\* (self.root_path / resource_path).as_posix(): the parts of resource_path
\* are appended to root_path; PureWindowsPath parses the parts of the right
\* operand again and a part with a drive replaces everything before it
JoinedAsPosix(root_path, resource_path) ==
    LET drives == { i \in 1..Len(resource_path) : HasDrive(resource_path[i]) }
    IN  IF drives = {} THEN as_posix(root_path \o resource_path)
        ELSE LET k    == CHOOSE i \in drives : \A j \in drives : j <= i
                 part == resource_path[k]
                 rel  == SubSeq(part, 3, Len(part))
                 tail == (IF IsPart(rel) THEN <<rel>> ELSE <<>>)
                         \o SubSeq(resource_path, k + 1, Len(resource_path))
             IN  <<part[1], ":">> \o Join(tail, "/")

\* ConnInfo.full_path_to_url, given full_path.as_posix()
full_path_to_url(full_path_posix) == urlunparse(Scheme, Netloc, full_path_posix)

\* ConnInfo.resource_path_to_url
resource_path_to_url(info, resource_path) ==
    full_path_to_url(JoinedAsPosix(info.root_path, resource_path))

\* no URL has been built
NoUrl == [resource_path |-> <<>>, value |-> urlunparse(<<>>, <<>>, <<>>)]

\* the remote resource paths URLs are built for: paths of one part, and of
\* two parts one of which is the name a
UrlResources ==
    UNION { { <<p>>, << <<"a">>, p >>, << p, <<"a">> >> } : p \in PathParts }

\* the listing request has been answered with the document for the listing
ListingFetched ==
    /\ listing_answer = Response(207)
    /\ content = DocumentOf(conn_info.root_path, remote_resources)
    /\ propfinds = 1
    /\ listed = NoException

\* no listing request has been sent
NothingListed ==
    /\ propfinds = 0
    /\ listed = NoException

\* ----------------------------------------------------------------- actions

\* init_logger: the console handler and the handler of logs/general.log
PermanentHandlers ==
    { [file |-> "console", call |-> 0], [file |-> "general", call |-> 0] }

\* the FileHandler fh that call n of backup creates
RunHandler(n) == [file |-> "run", call |-> n]

\* no backup call has been made
NoCall == [n |-> 0, thread_id |-> 0, jobname |-> "", pc |-> "idle"]

\* the service is driven directly, by no BackupSuite
NoSuite ==
    /\ services = 0
    /\ handlers = {}
    /\ thread_to_jobname = <<>>
    /\ call = NoCall

\* a ConnInfo built from the root URL with path /a
BuiltConnInfo == [state |-> "built", root_path |-> << <<"a">> >>]

\* the local variables of download_resources at its entry, the executor and
\* the bookkeeping of the run
EngineEntry ==
    /\ try_num = 0
    /\ try_resources = remote_resources
    /\ failed_resources = <<>>
    /\ retry_resources = <<>>
    /\ new_failed_resources = <<>>
    /\ tasks = <<>>
    /\ shut_down = FALSE
    /\ attempts = [p \in Range(remote_resources) |-> 0]
    /\ gets = [p \in Range(remote_resources) |-> 0]
    /\ written = {}
    /\ res_state = [p \in Range(remote_resources) |-> "PENDING"]

\* download_resources is entered: full_backup has computed the local paths,
\* deleted the local root and created the directory tree
InitWith(methodSets) ==
    /\ os_name = "posix"
    /\ url_path = <<"/", "a">>
    /\ conn_info = BuiltConnInfo
    /\ conn_methods \in methodSets
    /\ MAX_TRIES \in MaxTriesValues
    /\ do_async \in BOOLEAN
    /\ remote_resources \in SeqsUpTo(RemotePaths, MaxListLen)
    /\ transport \in [Range(remote_resources) -> Scripts]
    /\ remote_res_to_local_res = ComputeLocalResPaths(remote_resources, EmptyDict)
    /\ mkdirs = MkdirCalls(remote_resources, remote_res_to_local_res, {})
    /\ prior = [dirs |-> {}, files |-> {}]
    /\ dirs = DirsAfter({}, mkdirs)
    /\ files = [l \in FileNames(remote_resources) |-> <<>>]
    /\ pc = "loop"
    /\ EngineEntry
    /\ ListingFetched
    /\ url = NoUrl
    /\ run = 1
    /\ NoSuite

\* the service as the repository defines it: conn_info is a ConnInfo
Init == InitWith({ConnInfoMethods})

\* the same service whose conn_info may also answer the name download_resource
\* calls (UrlBuilderCalled), so that the GET is sent and its outcome classified;
\* every behaviour of Init is a behaviour of InitOpen
InitOpen == InitWith({ConnInfoMethods, ConnInfoMethods \cup {UrlBuilderCalled}})

\* LoopGuard that runs one wave more than MAX_TRIES
LoopGuardOffByOne == Len(try_resources) > 0 /\ (MAX_TRIES = NoCeiling \/ try_num <= MAX_TRIES)

\* the loop guard of download_resources
LoopGuard == Len(try_resources) > 0 /\ (MAX_TRIES = NoCeiling \/ try_num < MAX_TRIES)

\* download_resources, lines 197-204 and 213-219: future_to_resource.clear(),
\* the loop guard, then either the submission of a wave or the exit path
LoopIter ==
    /\ pc = "loop"
    /\ IF LoopGuard
       THEN /\ try_num' = Inc(try_num)
            /\ tasks' = UnmapAll(SelectSeq(tasks, Unfinished))
                        \o [ i \in 1..Len(try_resources) |->
                               NewTask(try_resources[i], Inc(try_num)) ]
            /\ retry_resources' = <<>>
            /\ new_failed_resources' = <<>>
            /\ pc' = "check"
            /\ UNCHANGED << failed_resources, shut_down >>
       ELSE /\ failed_resources' = failed_resources \o try_resources
            /\ tasks' = UnmapAll(SelectSeq(tasks, IsRunning))
            /\ shut_down' = TRUE
            /\ pc' = "done"
            /\ UNCHANGED << try_num, retry_resources, new_failed_resources >>
    /\ UNCHANGED << config, outer, try_resources, attempts, gets, written, files,
                    res_state >>

\* a worker thread takes the oldest queued work item and calls download_resource
StartFetch(i) ==
    /\ i \in Queued
    /\ \A j \in Queued : i <= j
    /\ Cardinality(Running) < max_workers
    /\ tasks' = [tasks EXCEPT ![i].state = "running"]
    /\ attempts' = [attempts EXCEPT ![tasks[i].res] = Inc(@)]
    /\ UNCHANGED << config, outer, pc, try_num, try_resources, failed_resources,
                    retry_resources, new_failed_resources, shut_down, gets,
                    written, files, res_state >>

\* download_resource runs to its end: the future is done
EndFetch(i) ==
    /\ i \in Running
    /\ LET res == tasks[i].res
           t   == Answer(transport[res], tasks[i].wave)
           d   == download_resource(conn_methods, t,
                                    CanOpen(remote_res_to_local_res[res]))
       IN  /\ tasks' = [tasks EXCEPT ![i].state = "done", ![i].answer = t,
                                     ![i].result = d.result, ![i].sent = d.sent]
           /\ gets' = IF d.sent THEN [gets EXCEPT ![res] = Inc(@)] ELSE gets
           /\ written' = IF d.wrote THEN written \cup {<<res, tasks[i].wave>>} ELSE written
           /\ files' = IF d.wrote
                       THEN [files EXCEPT ![remote_res_to_local_res[res]] = res]
                       ELSE files
    /\ UNCHANGED << config, outer, pc, try_num, try_resources, failed_resources,
                    retry_resources, new_failed_resources, shut_down, attempts,
                    res_state >>

\* AllCollected that is satisfied by the first completed future
AnyCollected(ts) == \E j \in 1..Len(ts) : ts[j].mapped /\ ts[j].collected

\* AllCollected that is satisfied while one future of the wave is still out
AllCollectedButOne(ts) ==
    \A i \in 1..Len(ts) : \A j \in 1..Len(ts) :
        (ts[i].mapped /\ ~ts[i].collected /\ ts[j].mapped /\ ~ts[j].collected) => i = j

\* as_completed has handed out every future of the wave
AllCollected(ts) == \A j \in 1..Len(ts) : ts[j].mapped => ts[j].collected

\* check_futures: one iteration of the as_completed loop; after the last future
\* it returns and download_resources takes over the two lists (lines 207-209)
Collect(i) ==
    /\ pc = "check"
    /\ i \in Mapped
    /\ tasks[i].state = "done"
    /\ ~tasks[i].collected
    /\ LET res   == tasks[i].res
           class == Classify(tasks[i].result)
           retry == IF class = "RETRYABLE_FAILURE" THEN Append(retry_resources, res)
                    ELSE retry_resources
           fail  == IF class = "PERMANENT_FAILURE" THEN Append(new_failed_resources, res)
                    ELSE new_failed_resources
           ts    == [tasks EXCEPT ![i].collected = TRUE]
       IN  IF class = "RAISED"
           THEN /\ pc' = "raised"
                /\ UNCHANGED << tasks, retry_resources, new_failed_resources,
                                try_resources, failed_resources, res_state >>
           ELSE /\ tasks' = ts
                /\ retry_resources' = retry
                /\ new_failed_resources' = fail
                /\ res_state' = [res_state EXCEPT ![res] = class]
                /\ IF AllCollected(ts)
                   THEN /\ try_resources' = retry
                        /\ failed_resources' = failed_resources \o fail
                        /\ pc' = "loop"
                   ELSE UNCHANGED << try_resources, failed_resources, pc >>
    /\ UNCHANGED << config, outer, try_num, shut_down, attempts, gets, written,
                    files >>

\* the coordinating thread is interrupted while it waits in as_completed
\* (KeyboardInterrupt): the exception leaves check_futures and
\* download_resources, which has no handler and no finally clause, so
\* shutdown_executor is not called and the executor keeps its work queue
Abort ==
    /\ pc = "check"
    /\ pc' = "aborted"
    /\ UNCHANGED << config, outer, try_num, try_resources, failed_resources,
                    retry_resources, new_failed_resources, tasks, shut_down,
                    attempts, gets, written, files, res_state >>

\* the engine's state while full_backup or __init__ is at an earlier step
EngineIdle ==
    UNCHANGED << try_num, try_resources, failed_resources, retry_resources,
                 new_failed_resources, tasks, shut_down, attempts, gets, written,
                 res_state >>

\* ConnInfo.has_double_slash: re.match(r'//+', string) matches at the start of
\* the string only
has_double_slash(string) ==
    Len(string) >= 2 /\ string[1] = "/" /\ string[2] = "/"

\* RootPathOf that keeps the root of the path
RootPathKeepsRoot(path_str) == PurePathOf(path_str)

\* ConnInfo.__init__, lines 26-29: PurePath(parse_res.path) made relative
RootPathOf(path_str) ==
    LET root_path == PurePathOf(path_str)
    IN  IF IsRooted(root_path) THEN Tail(root_path) ELSE root_path

\* BackupService.__init__: self.conn_info = ConnInfo(root_url)
ServiceInit ==
    /\ pc = "new"
    /\ IF has_double_slash(url_path)
       THEN /\ conn_info' = [state |-> "ValueError", root_path |-> <<>>]
            /\ pc' = "raised"
       ELSE /\ conn_info' = [state |-> "built", root_path |-> RootPathOf(url_path)]
            /\ pc' = "list"
    /\ EngineIdle
    /\ UNCHANGED << config, os_name, url_path, dirs, mkdirs, files, discovery,
                    suite >>

\* full_backup, line 132: _compute_local_res_paths
ComputeLocal ==
    /\ pc = "compute"
    /\ remote_res_to_local_res' =
         ComputeLocalResPaths(remote_resources, remote_res_to_local_res)
    /\ pc' = "delete"
    /\ EngineIdle
    /\ UNCHANGED << outer, conn_methods, MAX_TRIES, do_async, remote_resources,
                    transport, files, prior >>

\* _delete_local_root that deletes nothing
RootAfterDeleteKept == [dirs |-> dirs, files |-> files]

\* _delete_local_root: shutil.rmtree of the local root if it exists
RootAfterDelete ==
    IF <<>> \in dirs
    THEN [dirs |-> {}, files |-> [l \in DOMAIN files |-> <<>>]]
    ELSE [dirs |-> dirs, files |-> files]

\* full_backup, line 136
DeleteLocalRoot ==
    /\ pc = "delete"
    /\ dirs' = RootAfterDelete.dirs
    /\ files' = RootAfterDelete.files
    /\ pc' = "mkdir"
    /\ EngineIdle
    /\ UNCHANGED << config, os_name, url_path, conn_info, mkdirs, discovery,
                    suite >>

\* full_backup, line 141: _create_directory_tree
CreateDirectoryTree ==
    /\ pc = "mkdir"
    /\ mkdirs' = MkdirCalls(remote_resources, remote_res_to_local_res, {})
    /\ dirs' = DirsAfter(dirs, mkdirs')
    /\ pc' = "loop"
    /\ EngineIdle
    /\ UNCHANGED << config, os_name, url_path, conn_info, files, discovery,
                    suite >>

Next ==
    \/ LoopIter
    \/ \E i \in 1..Len(tasks) : StartFetch(i)
    \/ \E i \in 1..Len(tasks) : EndFetch(i)
    \/ \E i \in 1..Len(tasks) : Collect(i)

Spec == Init /\ [][Next]_vars

SpecOpen == InitOpen /\ [][Next]_vars

FairSpecOpen == InitOpen /\ [][Next]_vars /\ WF_vars(Next)

\* ---- download_resources with an interrupt of the coordinating thread

NextAbort ==
    \/ Next
    \/ Abort

SpecAbort == Init /\ [][NextAbort]_vars

\* ---- the service object is constructed from a root URL

UnbuiltConnInfo == [state |-> "unbuilt", root_path |-> <<>>]

InitEndpoint ==
    /\ os_name \in {"posix", "nt"}
    /\ url_path \in UrlPaths
    /\ conn_info = UnbuiltConnInfo
    /\ conn_methods = ConnInfoMethods
    /\ MAX_TRIES = WebDavMaxTries
    /\ do_async \in BOOLEAN
    /\ remote_resources = <<>>
    /\ transport = [p \in {} |-> Script(0, 503, Response(200))]
    /\ remote_res_to_local_res = EmptyDict
    /\ mkdirs = <<>>
    /\ prior = [dirs |-> {}, files |-> {}]
    /\ dirs = {}
    /\ files = [l \in FileNames(remote_resources) |-> <<>>]
    /\ pc = "new"
    /\ EngineEntry
    /\ listing_answer = Response(207)
    /\ content = MultiStatus(<<>>)
    /\ NothingListed
    /\ url = NoUrl
    /\ run = 1
    /\ NoSuite

SpecEndpoint == InitEndpoint /\ [][ServiceInit]_vars

\* ---- full_backup after get_resources has returned the listing

\* what is under the local root before the run: nothing (the root is missing),
\* an empty root, or a root with a directory and a file in it
PriorContents ==
    { [dirs |-> {}, files |-> {}],
      [dirs |-> {<<>>}, files |-> {}],
      [dirs |-> {<<>>, StaleDir}, files |-> {StaleFile}] }


BackupScripts == { Script(0, 503, Response(200)), Script(0, 503, Response(404)) }

InitBackupWith(methodSets, listings, scripts) ==
    /\ os_name \in {"posix", "nt"}
    /\ url_path = <<"/", "a">>
    /\ conn_info = BuiltConnInfo
    /\ conn_methods \in methodSets
    /\ MAX_TRIES = WebDavMaxTries
    /\ do_async \in BOOLEAN
    /\ remote_resources \in listings
    /\ transport \in [Range(remote_resources) -> scripts]
    /\ remote_res_to_local_res = EmptyDict
    /\ mkdirs = <<>>
    /\ prior \in PriorContents
    /\ dirs = prior.dirs
    /\ files = [l \in FileNames(remote_resources) |->
                  IF l \in prior.files THEN StaleBody ELSE <<>>]
    /\ pc = "compute"
    /\ EngineEntry
    /\ ListingFetched
    /\ url = NoUrl
    /\ run = 1
    /\ NoSuite

Layout ==
    \/ ComputeLocal
    \/ DeleteLocalRoot
    \/ CreateDirectoryTree

NextBackup ==
    \/ Layout
    \/ Next

\* the service as the repository defines it
SpecBackup ==
    InitBackupWith({ConnInfoMethods}, BackupListings, BackupScripts) /\ [][NextBackup]_vars

\* the same with a conn_info that may answer UrlBuilderCalled
SpecBackupOpen ==
    InitBackupWith({ConnInfoMethods, ConnInfoMethods \cup {UrlBuilderCalled}},
                   BackupListings, BackupScripts)
    /\ [][NextBackup]_vars

\* ---- the layout steps of full_backup over many paths: listings of one path
\* out of PathInputs, and listings of up to MaxListLen paths out of TreePaths

MaxDepth == 3

\* files a and b in the directories a, a/a, ... of up to MaxDepth - 1 levels
TreePaths ==
    { [i \in 1..k |-> IF i < k THEN <<"a">> ELSE name] :
        k \in 1..MaxDepth, name \in { <<"a">>, <<"b">> } }

LayoutListings ==
    { <<p>> : p \in PathInputs } \cup SeqsUpTo(TreePaths, MaxListLen)

SpecLayout ==
    InitBackupWith({ConnInfoMethods}, LayoutListings, {Script(0, 503, Response(200))})
    /\ [][Layout]_vars

\* ---- the resource URL: ConnInfo.resource_path_to_url

\* a caller asks the constructed endpoint for the URL of a resource
ResourcePathToUrl(resource_path) ==
    /\ pc = "list"
    /\ conn_info.state = "built"
    /\ url' = [resource_path |-> resource_path,
               value |-> resource_path_to_url(conn_info, resource_path)]
    /\ EngineIdle
    /\ UNCHANGED << config, os_name, url_path, conn_info, dirs, mkdirs, files, pc,
                    listing_answer, content, propfinds, listed, run, suite >>

NextUrl ==
    \/ ServiceInit
    \/ \E p \in UrlResources : ResourcePathToUrl(p)

SpecUrl == InitEndpoint /\ [][NextUrl]_vars

\* ---- a run from the construction of the service: __init__, then
\* full_backup with its listing request

\* most response elements of a listing document
MaxItems == 2

\* response elements of servers whose files are under /a: the files /a/a and
\* /a/b: (the second with scheme and netloc, its colon percent-encoded), the
\* collection /a, a file without href element, a file outside /a
ListingItems ==
    { Item(Href(FALSE, <<"/", "a", "/", "a">>), FALSE),
      Item(Href(TRUE, <<"/", "a", "/", "b", "%3A">>), FALSE),
      Item(Href(FALSE, <<"/", "a">>), TRUE),
      Item(NoHref, FALSE),
      Item(Href(FALSE, <<"/", "b", "/", "a">>), FALSE) }

Documents ==
    {Unparsable} \cup { MultiStatus(items) : items \in SeqsUpTo(ListingItems, MaxItems) }

\* what the transport does for the PROPFIND request
ListingAnswers ==
    { Response(s) : s \in {207, 200, 404} \cup RETRY_CODES }
    \cup {TimeoutError, ConnectionError}

\* a body is looked at only when the status is 207
Listings ==
    { <<Response(207), d>> : d \in Documents }
    \cup { <<a, Unparsable>> : a \in ListingAnswers \ {Response(207)} }

\* the path components of the root URLs: none, /a, //a, /a//a
RunUrlPaths ==
    { <<>>, <<"/", "a">>, <<"/", "/", "a">>, <<"/", "a", "/", "/", "a">> }

InitRunWith(methodSets) ==
    /\ os_name \in {"posix", "nt"}
    /\ url_path \in RunUrlPaths
    /\ conn_info = UnbuiltConnInfo
    /\ conn_methods \in methodSets
    /\ MAX_TRIES = WebDavMaxTries
    /\ do_async \in BOOLEAN
    /\ remote_resources = <<>>
    /\ transport = [p \in {} |-> Script(0, 503, Response(200))]
    /\ remote_res_to_local_res = EmptyDict
    /\ mkdirs = <<>>
    /\ prior \in PriorContents
    /\ dirs = prior.dirs
    /\ files = [l \in FileNames(remote_resources) |->
                  IF l \in prior.files THEN StaleBody ELSE <<>>]
    /\ pc = "new"
    /\ EngineEntry
    /\ \E l \in Listings : listing_answer = l[1] /\ content = l[2]
    /\ NothingListed
    /\ url = NoUrl
    /\ run = 1
    /\ NoSuite

InitRun == InitRunWith({ConnInfoMethods})

\* full_backup, line 128: get_resources.  An exception leaves full_backup; a
\* returned list is the argument of the later steps, and the transport's
\* scripts for its resources and the bookkeeping of the engine are laid out
GetResources ==
    /\ pc = "list"
    /\ propfinds' = propfinds + 1
    /\ LET g == get_resources(listing_answer, content, conn_info.root_path)
       IN  /\ listed' = g.exc
           /\ IF g.exc = NoException
              THEN /\ remote_resources' = g.resources
                   /\ transport' \in [Range(g.resources) -> BackupScripts]
                   /\ try_resources' = g.resources
                   /\ attempts' = [p \in Range(g.resources) |-> 0]
                   /\ gets' = [p \in Range(g.resources) |-> 0]
                   /\ res_state' = [p \in Range(g.resources) |-> "PENDING"]
                   /\ files' = [l \in (DOMAIN files) \cup FileNames(g.resources) |->
                                  IF l \in DOMAIN files THEN files[l] ELSE <<>>]
                   /\ pc' = "compute"
              ELSE /\ pc' = "raised"
                   /\ UNCHANGED << remote_resources, transport, try_resources,
                                   attempts, gets, res_state, files >>
    /\ UNCHANGED << os_name, url_path, conn_info, conn_methods, MAX_TRIES, do_async,
                    remote_res_to_local_res, prior, dirs, mkdirs, try_num,
                    failed_resources, retry_resources, new_failed_resources,
                    tasks, shut_down, written, listing_answer, content, url, run,
                    suite >>

NextRun ==
    \/ ServiceInit
    \/ GetResources
    \/ Layout
    \/ Next

\* the service as the repository defines it
SpecRun == InitRun /\ [][NextRun]_vars

\* the same with a conn_info that may answer UrlBuilderCalled
SpecRunOpen ==
    InitRunWith({ConnInfoMethods, ConnInfoMethods \cup {UrlBuilderCalled}})
    /\ [][NextRun]_vars

\* ---- several runs of full_backup in one process

\* most runs of the process
MaxRuns == 2

\* the listings of the runs: an empty document, a document with the file /a/a,
\* one with the file /a/b:, and a request answered 503
RunsListings ==
    { <<Response(207), MultiStatus(<<>>)>>,
      <<Response(207), MultiStatus(<< Item(Href(FALSE, <<"/", "a", "/", "a">>), FALSE) >>)>>,
      <<Response(207), MultiStatus(<< Item(Href(TRUE, <<"/", "a", "/", "b", "%3A">>), FALSE) >>)>>,
      <<Response(503), Unparsable>> }

\* the first full_backup of the process is called on a constructed service
InitRuns ==
    /\ os_name \in {"posix", "nt"}
    /\ url_path = <<"/", "a">>
    /\ conn_info = BuiltConnInfo
    /\ conn_methods = ConnInfoMethods
    /\ MAX_TRIES = WebDavMaxTries
    /\ do_async \in BOOLEAN
    /\ remote_resources = <<>>
    /\ transport = [p \in {} |-> Script(0, 503, Response(200))]
    /\ remote_res_to_local_res = EmptyDict
    /\ mkdirs = <<>>
    /\ prior = [dirs |-> {}, files |-> {}]
    /\ dirs = prior.dirs
    /\ files = [l \in FileNames(remote_resources) |-> <<>>]
    /\ pc = "list"
    /\ EngineEntry
    /\ \E l \in RunsListings : listing_answer = l[1] /\ content = l[2]
    /\ NothingListed
    /\ url = NoUrl
    /\ run = 1
    /\ NoSuite

\* a run has ended, by return or by exception, and its executor is idle: the
\* process (the scheduler's next job, or a caller with another service object
\* of the class) calls full_backup again.  Locals and the executor are new;
\* the class attribute remote_res_to_local_res and the local root are what the
\* earlier run left
RunAgain ==
    /\ pc \in {"done", "raised"}
    /\ conn_info.state = "built"
    /\ Queued = {} /\ Running = {}
    /\ run < MaxRuns
    /\ run' = run + 1
    /\ \E l \in RunsListings : listing_answer' = l[1] /\ content' = l[2]
    /\ propfinds' = 0
    /\ listed' = NoException
    /\ remote_resources' = <<>>
    /\ transport' = [p \in {} |-> Script(0, 503, Response(200))]
    /\ try_num' = 0
    /\ try_resources' = <<>>
    /\ failed_resources' = <<>>
    /\ retry_resources' = <<>>
    /\ new_failed_resources' = <<>>
    /\ tasks' = <<>>
    /\ shut_down' = FALSE
    /\ attempts' = [p \in {} |-> 0]
    /\ gets' = [p \in {} |-> 0]
    /\ res_state' = [p \in {} |-> "PENDING"]
    /\ written' = {}
    /\ mkdirs' = <<>>
    /\ prior' = [dirs |-> dirs, files |-> { l \in DOMAIN files : files[l] # <<>> }]
    /\ pc' = "list"
    /\ UNCHANGED << os_name, url_path, conn_info, conn_methods, MAX_TRIES, do_async,
                    remote_res_to_local_res, dirs, files, url, suite >>

NextRuns ==
    \/ GetResources
    \/ Layout
    \/ Next
    \/ RunAgain

SpecRuns == InitRuns /\ [][NextRuns]_vars

\* ---- the suite: BackupSuite.backup, called by the scheduler's job threads

\* calls of backup the scheduler makes
MaxJobs == 4

\* threads of the scheduler's pool that run the job
MaxThreads == 2

\* services of the suite
MaxServices == 2

Threads == 1..MaxThreads

\* scheduled_backup, lines 192-193: the name of the one job it adds
JobNames == {"BackupJob"}

\* the methods a WebDavService has, its own and those of BackupService
ServiceMethods ==
    {"full_backup", "get_resources", "download_resource", "download_resources",
     "check_futures", "shutdown_executor", "send_request", "parse_resource_list",
     "_delete_local_root", "_compute_local_res_paths", "_create_directory_tree"}

\* the service method BackupSuite.backup calls
ServiceMethodCalled == "backup"

\* thread_to_jobname[thread_id] = jobname
SetItem(d, k, v) == [ x \in DOMAIN d \cup {k} |-> IF x = k THEN v ELSE d[x] ]

\* del thread_to_jobname[thread_id]
DelItem(d, k) == [ x \in DOMAIN d \ {k} |-> d[x] ]

\* a BackupSuite of up to MaxServices constructed services; no job has run
InitSuite ==
    /\ os_name = "posix"
    /\ url_path = <<"/", "a">>
    /\ conn_info = BuiltConnInfo
    /\ conn_methods = ConnInfoMethods
    /\ MAX_TRIES = WebDavMaxTries
    /\ do_async = TRUE
    /\ remote_resources = <<>>
    /\ transport = [p \in {} |-> Script(0, 503, Response(200))]
    /\ remote_res_to_local_res = EmptyDict
    /\ mkdirs = <<>>
    /\ prior = [dirs |-> {}, files |-> {}]
    /\ dirs = {}
    /\ files = [l \in FileNames(remote_resources) |-> <<>>]
    /\ pc = "new"
    /\ EngineEntry
    /\ listing_answer = Response(207)
    /\ content = MultiStatus(<<>>)
    /\ NothingListed
    /\ url = NoUrl
    /\ run = 0
    /\ services \in 0..MaxServices
    /\ handlers = PermanentHandlers
    /\ thread_to_jobname = <<>>
    /\ call = NoCall

\* the state of the services
service == << config, os_name, url_path, conn_info, dirs, mkdirs, discovery, pc,
             try_num, try_resources, failed_resources, retry_resources,
             new_failed_resources, tasks, shut_down, attempts, gets, written,
             files, res_state >>

\* no call of backup is under way: none was made, or the last one returned
\* or was left by an exception
CallEnded == call.pc \in {"idle", "returned", "raised"}

\* backup, lines 154-165: a pool thread of the scheduler runs the job;
\* the FileHandler of the run is created and added to the logger
AddHandler ==
    /\ CallEnded
    /\ call.n < MaxJobs
    /\ \E t \in Threads : \E j \in JobNames :
          call' = [n |-> call.n + 1, thread_id |-> t, jobname |-> j, pc |-> "handler"]
    /\ handlers' = handlers \cup {RunHandler(call.n + 1)}
    /\ UNCHANGED << service, services, thread_to_jobname >>

\* backup, lines 168-169
MapThread ==
    /\ call.pc = "handler"
    /\ thread_to_jobname' = SetItem(thread_to_jobname, call.thread_id, call.jobname)
    /\ call' = [call EXCEPT !.pc = "mapped"]
    /\ UNCHANGED << service, services, handlers >>

\* backup, lines 172-173: service.backup() for every service; the attribute
\* lookup on the first service raises AttributeError, which leaves backup
RunServices ==
    /\ call.pc = "mapped"
    /\ IF services = 0
       THEN call' = [call EXCEPT !.pc = "reset"]
       ELSE /\ ServiceMethodCalled \notin ServiceMethods
            /\ call' = [call EXCEPT !.pc = "raised"]
    /\ UNCHANGED << service, services, handlers, thread_to_jobname >>

\* backup, lines 177-180
Reset ==
    /\ call.pc = "reset"
    /\ thread_to_jobname' = DelItem(thread_to_jobname, call.thread_id)
    /\ handlers' = handlers \ {RunHandler(call.n)}
    /\ call' = [call EXCEPT !.pc = "returned"]
    /\ UNCHANGED << service, services >>

NextSuite ==
    \/ AddHandler
    \/ MapThread
    \/ RunServices
    \/ Reset

SpecSuite == InitSuite /\ [][NextSuite]_vars

\* ------------------------------------------------------------------ claims

\* download_resources has been left and no work item is queued or running
Ended == pc \in {"done", "raised"} /\ Queued = {} /\ Running = {}

Listed == Range(remote_resources)

Failed == Range(failed_resources)

Has2xx(t) == t.kind = "response" /\ t.status >= 200 /\ t.status < 300

\* the calls of download_resource for p that opened p's local file
WritersOf(p) == { w \in written : w[1] = p }

\* C1: no outcome of a single fetch (HTTP error status, timeout, transport
\* error, failure to build the resource URL, any exception inside
\* download_resource) makes download_resources raise; the call completes and
\* every resource that did not succeed is in the failed-resources report.
C1_FetchFailuresNeverRaise ==
    /\ pc # "raised"
    /\ pc = "done" =>
         \A p \in Listed : res_state[p] # "SUCCEEDED" => p \in Failed

\* C2: for 1 <= N <= MAX_TRIES, a resource answered 503 on attempts 1..N-1 and
\* 200 on attempt N ends SUCCEEDED, is not reported failed, is attempted
\* exactly N times, and its local file is written only by attempt N.
C2_SucceedsOnNthAttempt ==
    \A p \in Listed : \A n \in 1..(MaxCeiling + 1) :
        ( /\ Ended
          /\ MAX_TRIES # NoCeiling
          /\ n <= MAX_TRIES
          /\ transport[p] = Script(n - 1, 503, Response(200)) )
        => /\ res_state[p] = "SUCCEEDED"
           /\ p \notin Failed
           /\ attempts[p] = n
           /\ WritersOf(p) = {<<p, n>>}

\* C3: a resource whose every request times out is attempted exactly MAX_TRIES
\* times, once per wave, and is in the failed-resources report at the end.
C3_TimeoutsUseAllTries ==
    \A p \in Listed :
        ( /\ Ended
          /\ MAX_TRIES # NoCeiling
          /\ transport[p] = Script(0, 503, TimeoutError) )
        => /\ attempts[p] = MAX_TRIES
           /\ try_num = MAX_TRIES
           /\ p \in Failed

\* C4: a resource that is always answered 404 is attempted exactly once and is
\* in the failed-resources report, whatever the other resources of the run do.
C4_NotFoundTriedOnce ==
    \A p \in Listed :
        ( /\ Ended
          /\ transport[p] = Script(0, 503, Response(404)) )
        => /\ attempts[p] = 1
           /\ p \in Failed

Retryable(t) ==
    \/ t.kind = "Timeout"
    \/ (t.kind = "response" /\ t.status \in {429, 502, 503, 504})

\* the futures of the wave whose GET was answered and that check_futures has seen
Seen == { i \in Mapped : tasks[i].collected /\ tasks[i].sent }

\* C5: the fetch outcomes classified retryable are exactly timeout, 429, 502,
\* 503 and 504: each puts the resource in the wave's retry list; every other
\* transport error and every other non-2xx status puts it in the wave's failed
\* list, and a resource reported failed is not attempted again.
C5_RetryableOutcomes ==
    /\ \A i \in Seen :
         LET t == tasks[i].answer
             p == tasks[i].res
         IN  /\ Retryable(t) <=> p \in Range(retry_resources)
             /\ (~Retryable(t) /\ ~Has2xx(t)) => p \in Range(new_failed_resources)
    /\ \A i \in 1..Len(tasks) :
         tasks[i].state # "done" => tasks[i].res \notin Failed
    /\ pc \in {"loop", "check"} => Range(try_resources) \cap Failed = {}

C5_Witness ==
    \E i \in Seen : \E j \in Seen :
        /\ tasks[i].answer = Response(429)
        /\ tasks[i].res \in Range(retry_resources)
        /\ tasks[j].answer = ConnectionError
        /\ tasks[j].res \in Range(new_failed_resources)

\* C6: every GET response with a 2xx status (200, 201, 204, 206, ...) is
\* classified Succeeded: the resource enters neither list and its body is
\* written to its local file.
C6_Every2xxSucceeds ==
    \A i \in 1..Len(tasks) :
        (tasks[i].state = "done" /\ Has2xx(tasks[i].answer))
        => /\ tasks[i].result = NoException
           /\ files[remote_res_to_local_res[tasks[i].res]] = tasks[i].res
           /\ tasks[i].collected =>
                tasks[i].res \notin Range(retry_resources) \cup Range(new_failed_resources)

\* C7: hard fence between waves: every work item the executor holds belongs to
\* the wave being collected, and whenever the coordinating thread is between
\* two waves (about to form the next one) every fetch submitted so far has
\* finished and has been collected.
C7_HardFence ==
    /\ \A i \in 1..Len(tasks) : tasks[i].mapped /\ tasks[i].wave = try_num
    /\ pc = "loop" =>
         \A i \in 1..Len(tasks) : tasks[i].state = "done" /\ tasks[i].collected

C7_Witness ==
    /\ pc = "check"
    /\ try_num >= 2
    /\ Len(tasks) >= 2
    /\ \E i \in Running : \E j \in Mapped : tasks[j].collected /\ i # j

\* C8: no two fetch tasks that are queued or in flight together are for the
\* same remote resource or the same local file, for every listing, also one
\* that lists an item more than once.
C8_TasksPairwiseDistinct ==
    \A i \in 1..Len(tasks) : \A j \in 1..Len(tasks) :
        (i # j /\ tasks[i].state # "done" /\ tasks[j].state # "done")
        => /\ tasks[i].res # tasks[j].res
           /\ remote_res_to_local_res[tasks[i].res] # remote_res_to_local_res[tasks[j].res]

\* C9: the number of fetches in flight never exceeds the pool's worker limit
\* (20 with do_async, else 1); with limit 1 at most one fetch is in flight at
\* any time, within a wave and across waves.
C9_WorkerLimit ==
    /\ Cardinality(Running) <= (IF do_async THEN AsyncWorkers ELSE SyncWorkers)
    /\ ~do_async => Cardinality(Running) <= 1

C9_Witness ==
    /\ ~do_async
    /\ try_num >= 2
    /\ Cardinality(Running) = 1
    /\ Queued # {}

Terminated == pc \in {"done", "raised"}

NoDuplicates(seq) == \A i \in 1..Len(seq) : \A j \in 1..Len(seq) : seq[i] = seq[j] => i = j

C12_AbortDiscardsQueued ==
    [][ pc = "aborted" =>
          /\ attempts' = attempts
          /\ Running = {} =>
               /\ shut_down
               /\ Queued = {}
               /\ \A p \in Listed : attempts[p] = 0 => p \in Failed ]_vars

\* C13: the local path of a remote path is the remote path with every part
\* sanitized on its own (a part of which nothing is left names nothing): the
\* separators stay and no two parts are merged into one.
C13_PerSegmentSanitize ==
    pc # "compute" =>
        \A p \in DOMAIN remote_res_to_local_res :
            remote_res_to_local_res[p]
                = SelectSeq([ i \in 1..Len(p) |-> Sanitize(p[i]) ], IsPart)

\* two distinct listed remote paths with the same local path
Colliding(p, q) ==
    /\ p \in Listed
    /\ q \in Listed
    /\ p # q
    /\ remote_res_to_local_res[p] = remote_res_to_local_res[q]

\* C14: if two distinct remote paths of one listing sanitize to the same local
\* path, each of them is reported and neither download writes the shared local
\* file; the run never ends with that file holding one body and an empty report.
C14_CollisionReported ==
    Ended =>
        \A p \in Listed : \A q \in Listed :
            Colliding(p, q) =>
                /\ p \in Failed
                /\ q \in Failed
                /\ files[remote_res_to_local_res[p]] = <<>>

\* the parts of a path below its root
NameParts(path) == IF IsRooted(path) THEN Tail(path) ELSE path

\* C15: no part of a computed local path contains any of < > : " / | ? *
C15_NoInvalidCharsInParts ==
    pc # "compute" =>
        \A p \in DOMAIN remote_res_to_local_res :
            LET local == NameParts(remote_res_to_local_res[p])
            IN  \A i \in 1..Len(local) : \A k \in 1..Len(local[i]) :
                    local[i][k] \notin {"<", ">", ":", "\"", "/", "|", "?", "*"}

C15_Witness ==
    /\ pc = "delete"
    /\ \E p \in DOMAIN remote_res_to_local_res :
         /\ \E i \in 1..Len(p) : \E k \in 1..Len(p[i]) : p[i][k] = ":"
         /\ remote_res_to_local_res[p] # <<>>

\* C16: sanitizing is idempotent, sanitize(sanitize(p)) = sanitize(p), and a
\* second call on the same p gives the local path the first call gave.
C16_SanitizeIdempotent ==
    pc # "compute" =>
        \A p \in DOMAIN remote_res_to_local_res :
            /\ clean_path(remote_res_to_local_res[p]) = remote_res_to_local_res[p]
            /\ clean_path(p) = remote_res_to_local_res[p]

C16_Witness ==
    /\ pc = "delete"
    /\ \E p \in DOMAIN remote_res_to_local_res :
         /\ remote_res_to_local_res[p] # p
         /\ remote_res_to_local_res[p] # <<>>
         /\ Len(p) = 2

AllAnswered200 == \A p \in Listed : transport[p] = Script(0, 503, Response(200))

LayoutBuilt == pc \in {"loop", "check", "done", "raised"}

\* C17: for the listing a/b.txt, a/c:d.txt, e.txt with every GET answered 200,
\* the local paths are a/b.txt, a/cd.txt and e.txt, directory a exists after
\* the layout build, and full_backup ends normally with the three local files
\* holding the bodies of their resources and an empty failed report.
C17_EndToEnd ==
    (remote_resources = EndToEndListing /\ AllAnswered200) =>
        /\ pc # "compute" =>
             /\ remote_res_to_local_res[<<Name_a, Name_b_txt>>] = <<Name_a, Name_b_txt>>
             /\ remote_res_to_local_res[<<Name_a, Name_c_d_txt>>] = <<Name_a, Name_cd_txt>>
             /\ remote_res_to_local_res[<<Name_e_txt>>] = <<Name_e_txt>>
        /\ LayoutBuilt => <<Name_a>> \in dirs
        /\ pc # "raised"
        /\ pc = "done" =>
             /\ failed_resources = <<>>
             /\ \A p \in Listed : files[remote_res_to_local_res[p]] = p

\* the directory d is dir or one of the directories dir lies in
IsAncestorOrSelf(d, dir) ==
    /\ Len(d) <= Len(dir)
    /\ \A i \in 1..Len(d) : d[i] = dir[i]
    /\ IsRooted(dir) => d # <<>>

ParentDirs == { Parent(remote_res_to_local_res[p]) : p \in Listed }

ExistingFiles == { l \in DOMAIN files : files[l] # <<>> }

\* C19: after a full_backup run in which every download succeeds the files
\* under the local root are exactly the local paths of the listing and the
\* directories exactly those the listing implies, whatever was there before.
C19_NoStaleLeftovers ==
    ( /\ pc = "done"
      /\ \A p \in Listed : res_state[p] = "SUCCEEDED" ) =>
        /\ ExistingFiles = { remote_res_to_local_res[p] : p \in Listed }
        /\ \A d \in dirs : \E dir \in ParentDirs : IsAncestorOrSelf(d, dir)

C19_Witness ==
    /\ pc = "done"
    /\ prior.files = {StaleFile}
    /\ Len(remote_resources) >= 2
    /\ \A p \in Listed : res_state[p] = "SUCCEEDED"
    /\ StaleFile \notin ExistingFiles
    /\ StaleDir \notin dirs

\* the string has two separators in a row somewhere
ContainsDoubledSeparator(string) ==
    \E i \in 1..(Len(string) - 1) : string[i] = "/" /\ string[i + 1] = "/"

\* C20: constructing the endpoint fails exactly when the path component of the
\* root URL contains a doubled separator, at the start, in the middle or at the
\* end.
C20_DoubledSeparatorRejected ==
    pc # "new" =>
        ((conn_info.state = "ValueError") <=> ContainsDoubledSeparator(url_path))

\* C21: for every constructed endpoint and every relative remote resource path
\* the resource URL is scheme://netloc/<root path>/<resource path> with empty
\* query and fragment, its path holds no doubled separator (also with an empty
\* root path), and building it leaves the endpoint as it was.
C21_ResourceUrlShape ==
    url # NoUrl =>
        /\ url.value = [scheme |-> Scheme, netloc |-> Netloc,
                        path |-> <<"/">> \o Join(conn_info.root_path \o url.resource_path, "/"),
                        query |-> <<>>, fragment |-> <<>>]
        /\ ~ContainsDoubledSeparator(url.value.path)
        /\ conn_info = [state |-> "built", root_path |-> RootPathOf(url_path)]

\* C22: the root path of a constructed endpoint is relative (it does not begin
\* with a separator), so the assertion at the start of parse_resource_list
\* does not fail when get_resources hands it the endpoint's root path.
C22_RootPathRelative ==
    /\ conn_info.state = "built" => ~IsRooted(conn_info.root_path)
    /\ listed.exc # "AssertionError"

C22_Witness ==
    /\ conn_info.state = "built"
    /\ conn_info.root_path # <<>>
    /\ url_path[1] = "/"
    /\ propfinds = 1
    /\ listed = NoException
    /\ remote_resources # <<>>

\* C23: a run sends exactly one PROPFIND request; only status 207 is accepted;
\* on any other status (429, 502, 503, 504 included) and on a transport error
\* the request is not sent again and the run ends with the exception before
\* any download is started.
C23_OneListingRequest ==
    /\ propfinds <= 1
    /\ (conn_info.state = "built" /\ pc # "list") => propfinds = 1
    /\ pc \in {"compute", "delete", "mkdir", "loop", "check", "done"}
         => listing_answer = Response(207)
    /\ (propfinds = 1 /\ listing_answer # Response(207)) =>
         /\ pc = "raised"
         /\ listed.exc \in {"HTTPError", "Timeout", "RequestException"}
         /\ tasks = <<>>
         /\ written = {}
         /\ dirs = prior.dirs

C23_Witness ==
    /\ propfinds = 1
    /\ listing_answer = Response(429)
    /\ listed = Raise("HTTPError", 429)
    /\ pc = "raised"

\* a response element without collection element
IsFile(item) == ~item.collection

\* the path part of an item's link, made relative, without the root prefix
StrippedLink(item, root_prefix) ==
    LET path == PurePathOf(unquote(urlparse_path(item.href)))
        relative == IF IsRooted(path) THEN Tail(path) ELSE path
    IN  SubSeq(relative, Len(root_prefix) + 1, Len(relative))

\* C24: the list parse_resource_list returns holds exactly the items of the
\* listing that are not flagged as collections, in their order, each with its
\* link reduced to the path part, made relative and with the root prefix
\* stripped; no collection is in the list, and none is submitted for download.
C24_FilesOnly ==
    (propfinds = 1 /\ listed = NoException /\ content.well_formed) =>
        LET file_items == SelectSeq(content.responses, IsFile)
        IN  /\ Len(remote_resources) = Len(file_items)
            /\ \A i \in 1..Len(file_items) :
                 remote_resources[i] = StrippedLink(file_items[i], conn_info.root_path)
            /\ \A i \in 1..Len(tasks) :
                 \E j \in 1..Len(file_items) :
                    tasks[i].res = StrippedLink(file_items[j], conn_info.root_path)

C24_Witness ==
    /\ propfinds = 1
    /\ listed = NoException
    /\ content.well_formed
    /\ \E i \in 1..Len(content.responses) : content.responses[i].collection
    /\ \E i \in 1..Len(content.responses) :
         /\ ~content.responses[i].collection
         /\ content.responses[i].href.netloc
    /\ conn_info.root_path # <<>>
    /\ Len(remote_resources) = 1
    /\ tasks # <<>>

\* C25: a remote path the listing document names more than once is in the
\* discovered resource list once: one download task per wave is submitted for
\* it and the failed report counts it at most once.
C25_DuplicatesCollapse ==
    /\ NoDuplicates(remote_resources)
    /\ \A i \in 1..Len(tasks) : \A j \in 1..Len(tasks) :
         (tasks[i].res = tasks[j].res /\ tasks[i].wave = tasks[j].wave) => i = j
    /\ NoDuplicates(failed_resources)

\* C26: parse_resource_list raises on no listing content: content that is not
\* XML gives the empty list, and every well-formed multi-status document is
\* parsed without exception, also one with an item that has no href element
\* or whose link is not under the root prefix.
C26_ParseNeverRaises ==
    (propfinds = 1 /\ listing_answer = Response(207)) =>
        /\ listed = NoException
        /\ ~content.well_formed => remote_resources = <<>>

\* C27: an invalid root URL (its path holds a doubled separator) is rejected
\* by the constructor of the service, before any request is sent and before
\* the local root is touched: no run with such a URL sends a PROPFIND or a
\* GET request.
C27_InvalidEndpointRejected ==
    ContainsDoubledSeparator(url_path) =>
        /\ pc \in {"new", "raised"}
        /\ conn_info.state # "built"
        /\ propfinds = 0
        /\ \A p \in DOMAIN gets : gets[p] = 0
        /\ tasks = <<>>
        /\ dirs = prior.dirs

\* C28: the remote-to-local records are per run: at the start of every run the
\* mapping holds no record (none of an earlier run of this or another service
\* object), and once a run has computed its local paths the mapping holds
\* exactly the records of that run's listing.
C28_RecordsPerRun ==
    /\ pc = "list" => DOMAIN remote_res_to_local_res = {}
    /\ pc \in {"delete", "mkdir", "loop", "check", "done"}
         => DOMAIN remote_res_to_local_res = Range(remote_resources)

CountIn(seq, p) == Cardinality({ k \in 1..Len(seq) : seq[k] = p })

\* the futures of the wave for resource p that were collected with an exception
CollectedFailures(p) ==
    { i \in Mapped : tasks[i].collected /\ tasks[i].res = p /\ tasks[i].result # NoException }

\* a step of a worker thread: a work item starts or ends
WorkerStep ==
    /\ pc' = pc
    /\ Len(tasks') = Len(tasks)
    /\ \E i \in 1..Len(tasks) : tasks'[i].state # tasks[i].state

\* a step of check_futures that handles the completion of future i
CollectorStep(i) ==
    /\ pc = "check"
    /\ tasks[i].mapped /\ tasks[i].state = "done" /\ ~tasks[i].collected
    /\ tasks' = [tasks EXCEPT ![i].collected = TRUE]
    /\ \/ retry_resources' = Append(retry_resources, tasks[i].res)
          /\ new_failed_resources' = new_failed_resources
       \/ new_failed_resources' = Append(new_failed_resources, tasks[i].res)
          /\ retry_resources' = retry_resources

\* C29: the retry list and the failed list of a wave are changed only by the
\* coordinating thread in check_futures, one completed future at a time, and
\* by no step of a worker thread; in every interleaving of the workers'
\* completions the two lists hold one entry for every future collected with a
\* failure, none lost and none twice, and the wave ends with every future
\* collected.
C29_ListsOwnedByCollector ==
    /\ [](pc \in {"check", "loop"} =>
            \A p \in Listed :
                CountIn(retry_resources \o new_failed_resources, p)
                = Cardinality(CollectedFailures(p)))
    /\ [](pc = "loop" => \A i \in Mapped : tasks[i].collected)
    /\ [][ /\ WorkerStep =>
               UNCHANGED << retry_resources, new_failed_resources,
                            failed_resources, try_resources >>
           /\ (retry_resources' # retry_resources
               \/ new_failed_resources' # new_failed_resources) =>
                 \/ /\ pc = "loop"
                    /\ retry_resources' = <<>>
                    /\ new_failed_resources' = <<>>
                 \/ \E i \in 1..Len(tasks) : CollectorStep(i)
         ]_vars

C29_Witness ==
    /\ do_async
    /\ pc = "loop"
    /\ Len(retry_resources) = 1
    /\ Len(new_failed_resources) = 1
    /\ Cardinality(Mapped) = 2

\* the resources of the futures of the current wave, in submission order
Submitted ==
    LET wave == SelectSeq(tasks, LAMBDA t : t.mapped)
    IN  [ i \in 1..Len(wave) |-> wave[i].res ]

\* C30: wave 1 submits every input resource and each later wave exactly the
\* resources classified retryable in the wave before; a resource is attempted
\* at most once per wave and at most MAX_TRIES times in total; a resource that
\* has succeeded or was classified permanently failed is not submitted again.
C30_ResourceStateMachine ==
    /\ pc = "check" =>
         /\ Submitted = try_resources
         /\ try_num = 1 => Submitted = remote_resources
    /\ (pc = "loop" /\ try_num >= 1) => try_resources = retry_resources
    /\ pc \in {"check", "loop"} =>
         \A p \in Range(retry_resources) : CollectedFailures(p) # {}
    /\ \A i \in 1..Len(tasks) : \A j \in 1..Len(tasks) :
         (tasks[i].res = tasks[j].res /\ tasks[i].wave = tasks[j].wave) => i = j
    /\ MAX_TRIES # NoCeiling => \A p \in Listed : attempts[p] <= MAX_TRIES
    /\ \A i \in Mapped :
         ~tasks[i].collected =>
            res_state[tasks[i].res] \in {"PENDING", "RETRYABLE_FAILURE"}

\* C31: whenever download_resources has been left, by return or by an
\* exception, the executor has been shut down and no work item of the run is
\* queued or running (so none starts, or writes a local file, afterwards).
C31_PoolShutDownOnExit ==
    pc \in {"done", "raised"} =>
        /\ shut_down
        /\ Queued = {}
        /\ Running = {}

\* the local root as it was before the run
RootUntouched ==
    /\ dirs = prior.dirs
    /\ \A l \in DOMAIN files : files[l] = (IF l \in prior.files THEN StaleBody ELSE <<>>)

\* C32: full_backup performs its steps in order, one after the other: the
\* listing request has completed and every local path is computed before the
\* local root is deleted, the deletion has completed before a directory is
\* created, and every directory is created before the first fetch is
\* submitted; whenever a fetch has opened its local file, the parent directory
\* of the file had been created by _create_directory_tree.
C32_StepOrder ==
    /\ pc \in {"new", "list", "compute", "delete"} =>
         /\ RootUntouched
         /\ mkdirs = <<>>
         /\ tasks = <<>>
    /\ pc = "delete" =>
         /\ propfinds = 1 /\ listed = NoException
         /\ Range(remote_resources) \subseteq DOMAIN remote_res_to_local_res
    /\ pc = "mkdir" =>
         /\ dirs = {}
         /\ \A l \in DOMAIN files : files[l] = <<>>
         /\ mkdirs = <<>>
         /\ tasks = <<>>
    /\ tasks # <<>> =>
         \A p \in Range(remote_resources) :
             WithAncestors(Parent(remote_res_to_local_res[p])) \subseteq dirs
    /\ \A w \in written :
         /\ Parent(remote_res_to_local_res[w[1]]) \in dirs
         /\ \E k \in 1..Len(mkdirs) :
              Parent(remote_res_to_local_res[w[1]]) \in WithAncestors(mkdirs[k])

C32_Witness ==
    /\ propfinds = 1
    /\ prior.files = {StaleFile}
    /\ \E w \in written : Len(remote_res_to_local_res[w[1]]) >= 2
    /\ Len(remote_resources) = 2
    /\ pc = "done"

\* C33: when the listing request fails (a transport error, or any status but
\* 207) full_backup leaves the local filesystem as it was: the local root and
\* the files an earlier run left in it are neither deleted nor modified, and
\* no directory is created.
C33_FailedListingKeepsFiles ==
    (propfinds = 1 /\ listing_answer # Response(207)) =>
        /\ pc = "raised"
        /\ RootUntouched
        /\ mkdirs = <<>>
        /\ written = {}

C33_Witness ==
    /\ propfinds = 1
    /\ listing_answer = TimeoutError
    /\ listed = Raise("Timeout", 0)
    /\ prior.files = {StaleFile}
    /\ files[StaleFile] = StaleBody
    /\ StaleDir \in dirs

\* C34: when the listing request is answered 207 with content that is not
\* parsable, the resource list is empty and full_backup goes on: it deletes
\* the local root, creates no directory, submits no fetch and ends with an
\* empty failed report; the mirror of the earlier run is gone and nothing is
\* put in its place.
C34_UnparsableListingEmptiesRoot ==
    (propfinds = 1 /\ listing_answer = Response(207) /\ ~content.well_formed) =>
        /\ listed = NoException
        /\ remote_resources = <<>>
        /\ pc \in {"compute", "delete", "mkdir", "loop", "done"}
        /\ mkdirs = <<>>
        /\ tasks = <<>>
        /\ written = {}
        /\ pc \in {"mkdir", "loop", "done"} =>
             /\ dirs = {}
             /\ \A l \in DOMAIN files : files[l] = <<>>
        /\ pc = "done" => (failed_resources = <<>> /\ shut_down /\ try_num = 0)

C34_Witness ==
    /\ propfinds = 1
    /\ listing_answer = Response(207)
    /\ ~content.well_formed
    /\ prior.files = {StaleFile}
    /\ pc = "done"
    /\ dirs = {}
    /\ files[StaleFile] = <<>>
    /\ failed_resources = <<>>

\* a fetch attempt ends with an exception
FailedFetchStep ==
    \E i \in 1..Len(tasks) :
        /\ i <= Len(tasks')
        /\ tasks[i].state = "running"
        /\ tasks'[i] = [tasks[i] EXCEPT !.state = "done", !.answer = tasks'[i].answer,
                                         !.result = tasks'[i].result,
                                         !.sent = tasks'[i].sent]
        /\ tasks'[i].result.exc # "none"

C36_RunStateRemoved ==
    CallEnded =>
        /\ handlers = PermanentHandlers
        /\ DOMAIN thread_to_jobname = {}

====
